---- MODULE Spec2Model ----
(***************************************************************************)
(* HearMeOut: the audio-to-emotion services (src/ml-service, src/Model).   *)
(*                                                                         *)
(* The specifications of this module, one per part of the program:         *)
(*   SpecEmoji     utils/emoji_mapper.py  emotions_to_emojis               *)
(*   SpecAudio     utils/audio_processor.py  load_audio                    *)
(*   SpecMl        ml-service/app.py: initialize_models and the request    *)
(*                 handlers, /analyze running in concurrent threads        *)
(*   SpecModelApi  Model/app.py: load_model and the request handlers       *)
(*   SpecClassify  the scoring after the forward pass: predict_emotion of  *)
(*                 Model/app.py and EmotionDetector.predict                *)
(*   SpecPooling   Wav2Vec2ForSpeechClassification.merged_strategy         *)
(*   SpecServices  both services side by side, every endpoint              *)
(* Each specification moves only its own variables and leaves the others   *)
(* at their initial values.                                                *)
(***************************************************************************)
EXTENDS Integers, Sequences, FiniteSets, TLC

VARIABLES
    \* ---- emotions_to_emojis ----
    emotion_scores,     \* the argument: a list of [emotion, score]
    top_k,              \* the argument top_k
    suggested_emojis,   \* the returned list
    epc,                \* "build" while the caller assembles the list, "returned" after the call
    \* ---- load_audio ----
    audio_file,         \* the file at file_path: [decodable, samples]
    loaded,             \* what load_audio gave: a signal or a raised exception
    apc,                \* "call" before load_audio runs, "returned" after
    \* ---- ml-service/app.py ----
    emotion_detector,   \* the global: "None" or "loaded"
    whisper_model,      \* the global: "None" or "loaded"
    init_pc,            \* where initialize_models stands
    temp_files,         \* TEMP_AUDIO_DIR: path -> the request whose bytes the file holds, 0 when absent
    rpc,                \* per request thread: where analyze_audio stands
    rname,              \* per request thread: audio_file.filename
    rstaged,            \* per request thread: audio_file.save created its file
    rerr,               \* per request thread: the exception propagating out of the try block, "none" without one
    rstatus,            \* per request thread: the HTTP status returned, 0 while in flight
    ml_health,          \* the last answer of GET /health
    emojis_resp,        \* the last answer of GET /emojis
    \* ---- Model/app.py ----
    model,              \* the global: "None", "created" (no trained weights yet) or "trained"
    feature_extractor,  \* the global: "None" or "loaded"
    device,             \* the global: "None" or "cpu"
    load_pc,            \* where load_model stands
    predict_resp,       \* the last answer of POST /predict
    api_health,         \* the last answer of GET /health
    \* ---- the classifiers' scoring: Model/app.py predict_emotion, EmotionDetector.predict ----
    logits,             \* the logits of the forward pass, <<>> before it
    cls_pc,             \* which service ran the forward pass and how far its scoring got
    results,            \* the dictionary predict_emotion returns
    score_list,         \* the list EmotionDetector.predict returns
    emotionScores,      \* the emotionScores field of the /analyze answer
    \* ---- Wav2Vec2ForSpeechClassification: pooling ----
    pooling_mode,       \* self.pooling_mode, "unset" before __init__
    hidden_states,      \* the frames handed to merged_strategy
    pooled              \* what merged_strategy gave: a value or a raised exception

emojiVars == <<emotion_scores, top_k, suggested_emojis, epc>>
audioVars == <<audio_file, loaded, apc>>
mlVars == <<emotion_detector, whisper_model, init_pc, temp_files, rpc, rname, rstaged,
            rerr, rstatus, ml_health, emojis_resp>>
apiVars == <<model, feature_extractor, device, load_pc, predict_resp, api_health>>

classifyVars == <<logits, cls_pc, results, score_list, emotionScores>>
poolVars == <<pooling_mode, hidden_states, pooled>>

vars == <<emojiVars, audioVars, mlVars, apiVars, classifyVars, poolVars>>

(***************************************************************************)
(* Bounds of the model.                                                    *)
(***************************************************************************)
\* longest ScoreList handed to emotions_to_emojis (one more than the cap of 5)
MaxLen == 6
\* largest top_k requested
MaxTopK == 4
\* longest decoded recording, in half seconds (the maximum kept is 60 s)
MaxHalfSeconds == 122
\* request threads serving /analyze at the same time
MaxThreads == 2

(***************************************************************************)
(* Python helpers.                                                         *)
(***************************************************************************)
Min(a, b) == IF a < b THEN a ELSE b
Max(a, b) == IF a > b THEN a ELSE b

\* s[:k] of Python: the first k elements, all of s when k >= len(s), and
\* the first len(s)+k elements (none when that is negative) when k < 0.
PySlicePrefix(s, k) ==
    IF k >= 0 THEN SubSeq(s, 1, Min(k, Len(s)))
    ELSE SubSeq(s, 1, Max(Len(s) + k, 0))

Range(s) == {s[i] : i \in 1..Len(s)}

(***************************************************************************)
(* config.py: EMOTION_TO_EMOJI.  A symbol is named after its label and     *)
(* place in the label's list.  In the source file the first symbol of      *)
(* 'neutral' and the third symbol of 'sad' are the same string (the bytes  *)
(* c4 9f c5 b8 cb 9c); it is the one symbol "neutral1_sad3" here.  Every   *)
(* other symbol of the mapping is a different string.                      *)
(***************************************************************************)
MappedEmotions ==
    {"angry", "calm", "disgust", "fearful", "happy", "neutral", "sad", "surprised"}

EMOTION_TO_EMOJI ==
    [e \in MappedEmotions |->
        CASE e = "angry"     -> <<"angry1", "angry2", "angry3">>
          [] e = "calm"      -> <<"calm1", "calm2", "calm3">>
          [] e = "disgust"   -> <<"disgust1", "disgust2", "disgust3">>
          [] e = "fearful"   -> <<"fearful1", "fearful2", "fearful3">>
          [] e = "happy"     -> <<"happy1", "happy2", "happy3">>
          [] e = "neutral"   -> <<"neutral1_sad3", "neutral2", "neutral3">>
          [] e = "sad"       -> <<"sad1", "sad2", "neutral1_sad3">>
          [] e = "surprised" -> <<"surprised1", "surprised2", "surprised3">>]

\* emoji_mapper.py line 40: the list returned when no candidate was produced
\* (the same three strings as EMOTION_TO_EMOJI['neutral']).
DefaultEmojis == <<"neutral1_sad3", "neutral2", "neutral3">>

(***************************************************************************)
(* The labels the model hands to emotions_to_emojis, and str.lower() on    *)
(* them: "SAD" is a key of EMOTION_TO_EMOJI only after lower-casing, and   *)
(* "bored" is no key of it.                                                *)
(***************************************************************************)
InputLabels == {"SAD", "neutral", "bored"}

Lower(s) ==
    CASE s = "SAD"     -> "sad"
      [] s = "Neutral" -> "neutral"
      [] OTHER         -> s

\* scores, in units of 1/10: floats that compare as these integers do
ScoreLevels == {1, 2}

InputEntries ==
    {[emotion |-> l, score |-> w] : l \in InputLabels, w \in ScoreLevels}
        \ {[emotion |-> "bored", score |-> 2]}

\* the entries the model places behind the fifth: a mapped label of the
\* highest weight and an unmapped one
TailEntries ==
    {[emotion |-> "SAD", score |-> 2], [emotion |-> "bored", score |-> 1]}

(***************************************************************************)
(* emotions_to_emojis, statement by statement.                             *)
(***************************************************************************)
TopSix(scores) == PySlicePrefix(scores, 6)

\* line 20: top_emotions = emotion_scores[:5]
TopEmotions(scores) == PySlicePrefix(scores, 5)

\* lines 23-36, one iteration of the outer loop: the candidates one entry
\* contributes, in the order of the label's emoji list
EntryCandidates(emotion_data) ==
    LET emotion == Lower(emotion_data.emotion)
        score   == emotion_data.score
    IN  IF emotion \in DOMAIN EMOTION_TO_EMOJI
        THEN [i \in 1..Len(EMOTION_TO_EMOJI[emotion]) |->
                 [emoji   |-> EMOTION_TO_EMOJI[emotion][i],
                  weight  |-> score,
                  emotion |-> emotion]]
        ELSE <<>>

\* lines 17-36: the loop over top_emotions appending to emoji_candidates
RECURSIVE EmojiCandidates(_)
EmojiCandidates(top_emotions) ==
    IF top_emotions = <<>> THEN <<>>
    ELSE EmojiCandidates(SubSeq(top_emotions, 1, Len(top_emotions) - 1))
             \o EntryCandidates(top_emotions[Len(top_emotions)])

\* insertion of x into a list already sorted by weight descending, behind
\* every element of weight >= x.weight: what makes the sort stable
RECURSIVE InsertByWeight(_, _)
InsertByWeight(sorted, x) ==
    IF sorted = <<>> THEN <<x>>
    ELSE IF sorted[Len(sorted)].weight >= x.weight THEN Append(sorted, x)
    ELSE Append(InsertByWeight(SubSeq(sorted, 1, Len(sorted) - 1), x),
                sorted[Len(sorted)])

\* a stable ascending sort read backwards: descending, but candidates of
\* equal weight come out in reverse order
RECURSIVE ReversedAscending(_)
ReversedAscending(cands) ==
    IF cands = <<>> THEN <<>>
    ELSE LET rest == ReversedAscending(SubSeq(cands, 1, Len(cands) - 1))
             x    == cands[Len(cands)]
             n    == Cardinality({i \in 1..Len(rest) : rest[i].weight > x.weight})
         IN  SubSeq(rest, 1, n) \o <<x>> \o SubSeq(rest, n + 1, Len(rest))

\* line 46: sorted(emoji_candidates, key=lambda x: x['weight'], reverse=True);
\* Python's sort is stable, also with reverse=True
RECURSIVE SortedByWeight(_)
SortedByWeight(cands) ==
    IF cands = <<>> THEN <<>>
    ELSE InsertByWeight(SortedByWeight(SubSeq(cands, 1, Len(cands) - 1)),
                        cands[Len(cands)])

KeepAll(sorted) == sorted

\* lines 43-49: the loop keeping a candidate when its emoji is not in seen_emojis
RECURSIVE UniqueCandidates(_)
UniqueCandidates(sorted) ==
    IF sorted = <<>> THEN <<>>
    ELSE LET before == UniqueCandidates(SubSeq(sorted, 1, Len(sorted) - 1))
             c      == sorted[Len(sorted)]
             seen_emojis == {before[i].emoji : i \in 1..Len(before)}
         IN  IF c.emoji \notin seen_emojis THEN Append(before, c) ELSE before

NoFallback == <<>>

\* line 40: return [...] when emoji_candidates is empty
Fallback == DefaultEmojis

emotions_to_emojis(scores, k) ==
    LET emoji_candidates == EmojiCandidates(TopEmotions(scores))
    IN  IF emoji_candidates = <<>> THEN Fallback
        ELSE LET unique_candidates == UniqueCandidates(SortedByWeight(emoji_candidates))
                 top == PySlicePrefix(unique_candidates, k)
             IN  [i \in 1..Len(top) |-> top[i].emoji]

(***************************************************************************)
(* SpecEmoji: a caller assembles a ScoreList entry by entry and then calls *)
(* emotions_to_emojis once.                                                *)
(***************************************************************************)
TopKs == (-1)..MaxTopK

InitEmoji ==
    /\ emotion_scores = <<>>
    /\ top_k = 0
    /\ suggested_emojis = <<>>
    /\ epc = "build"

AppendScore ==
    /\ epc = "build"
    /\ Len(emotion_scores) < MaxLen
    /\ \E e \in (IF Len(emotion_scores) < 5 THEN InputEntries ELSE TailEntries) :
          emotion_scores' = Append(emotion_scores, e)
    /\ UNCHANGED <<top_k, suggested_emojis, epc>>
    /\ UNCHANGED <<audioVars, mlVars, apiVars, classifyVars, poolVars>>

CallEmotionsToEmojis ==
    /\ epc = "build"
    /\ \E k \in TopKs :
          /\ top_k' = k
          /\ suggested_emojis' = emotions_to_emojis(emotion_scores, k)
    /\ epc' = "returned"
    /\ UNCHANGED emotion_scores
    /\ UNCHANGED <<audioVars, mlVars, apiVars, classifyVars, poolVars>>

(***************************************************************************)
(* utils/audio_processor.py: load_audio.                                   *)
(*                                                                         *)
(* A decoded signal is a run of samples of the file's decoded stream:      *)
(* [first, count] stands for the samples first .. first+count-1, in order. *)
(* librosa.load(sr=SAMPLE_RATE, mono=True) gives the whole stream,         *)
(* [first |-> 1, count |-> samples], at SAMPLE_RATE, or raises.            *)
(***************************************************************************)
SAMPLE_RATE == 16000
MAX_AUDIO_LENGTH_SECONDS == 60
MIN_AUDIO_LENGTH_SECONDS == 1

NoResult == [kind |-> "none"]

Signal(audio, sr) == [kind |-> "ok", audio |-> audio, sr |-> sr]

\* raise Exception(f"Error loading audio file: {str(e)}") (lines 34-35)
LoadError(cause) ==
    [kind |-> "raise", type |-> "Exception", msg |-> <<"Error loading audio file", cause>>]

\* len(audio)
SampleCount(audio) == audio.count

\* audio[:n] for n >= 0
SamplesPrefix(audio, n) == [first |-> audio.first, count |-> Min(audio.count, n)]

\* audio[-n:] for n > 0
SamplesSuffix(audio, n) ==
    [first |-> audio.first + Max(audio.count - n, 0), count |-> Min(audio.count, n)]

CountBelow(audio, sr, seconds) == SampleCount(audio) < seconds

\* line 24-25: duration = len(audio) / sr; duration < seconds.  The
\* quotient of two positive integers below 2^53 is below an integer exactly
\* when count < seconds * sr, so the float comparison is this one.
DurationBelow(audio, sr, seconds) == SampleCount(audio) < seconds * sr

\* line 28: duration > seconds
DurationAbove(audio, sr, seconds) == SampleCount(audio) > seconds * sr

KeepLast(audio, sr) == SamplesSuffix(audio, MAX_AUDIO_LENGTH_SECONDS * sr)

\* lines 30-31: max_samples = MAX_AUDIO_LENGTH_SECONDS * sr; audio[:max_samples]
Trimmed(audio, sr) == SamplesPrefix(audio, MAX_AUDIO_LENGTH_SECONDS * sr)

load_audio(file) ==
    IF ~file.decodable THEN LoadError("decode")
    ELSE LET audio == [first |-> 1, count |-> file.samples]
             sr    == SAMPLE_RATE
         IN  IF DurationBelow(audio, sr, MIN_AUDIO_LENGTH_SECONDS)
             THEN LoadError("Audio too short")
             ELSE IF DurationAbove(audio, sr, MAX_AUDIO_LENGTH_SECONDS)
             THEN Signal(Trimmed(audio, sr), sr)
             ELSE Signal(audio, sr)

(***************************************************************************)
(* SpecAudio: one call of load_audio on a file of the caller's choice.     *)
(***************************************************************************)
\* decoded lengths: every half second up to MaxHalfSeconds, and one sample
\* less and more than each
SampleCounts ==
    {n \in {k * (SAMPLE_RATE \div 2) + d : k \in 0..MaxHalfSeconds, d \in {-1, 0, 1}} : n >= 0}

AudioFiles ==
    {[decodable |-> TRUE, samples |-> n] : n \in SampleCounts}
        \cup {[decodable |-> FALSE, samples |-> 0]}

InitAudio ==
    /\ audio_file = [decodable |-> FALSE, samples |-> 0]
    /\ loaded = NoResult
    /\ apc = "choose"

ChooseFile ==
    /\ apc = "choose"
    /\ audio_file' \in AudioFiles
    /\ apc' = "call"
    /\ UNCHANGED loaded
    /\ UNCHANGED <<emojiVars, mlVars, apiVars, classifyVars, poolVars>>

CallLoadAudio ==
    /\ apc = "call"
    /\ loaded' = load_audio(audio_file)
    /\ apc' = "returned"
    /\ UNCHANGED audio_file
    /\ UNCHANGED <<emojiVars, mlVars, apiVars, classifyVars, poolVars>>

(***************************************************************************)
(* ml-service/app.py.                                                      *)
(*                                                                         *)
(* The handlers are functions of the Flask app object: they run whenever   *)
(* a host serves that object, whether or not initialize_models has run     *)
(* (only the __main__ block calls it), which is what the handler's own     *)
(* check of the globals (lines 82-86) is for.  Flask serves each request   *)
(* in a thread of its own; all threads share the process id and the        *)
(* temporary directory.                                                    *)
(***************************************************************************)
Threads == 1..MaxThreads

Filenames == {"a.wav", "b.wav"}

\* os.getpid(): one process, one value
Getpid == 1

\* line 102: temp_dir / f"temp_{os.getpid()}_{audio_file.filename}"
TempFilePath(filename) == <<"temp", Getpid, filename>>

TempPaths == {TempFilePath(f) : f \in Filenames}

\* what an upload decodes to: two seconds, half a second, or not at all
Uploads ==
    {[decodable |-> TRUE, samples |-> 2 * SAMPLE_RATE],
     [decodable |-> TRUE, samples |-> SAMPLE_RATE \div 2],
     [decodable |-> FALSE, samples |-> 0]}

InitMl ==
    /\ emotion_detector = "None"
    /\ whisper_model = "None"
    /\ init_pc = "not_started"
    /\ temp_files = [p \in TempPaths |-> 0]
    /\ rpc = [r \in Threads |-> "idle"]
    /\ rname = [r \in Threads |-> "none"]
    /\ rstaged = [r \in Threads |-> FALSE]
    /\ rerr = [r \in Threads |-> "none"]
    /\ rstatus = [r \in Threads |-> 0]
    /\ ml_health = [asked |-> FALSE, models_loaded |-> FALSE,
                    at |-> "none", fields |-> {}]
    /\ emojis_resp = [status |-> 0, data |-> {}]

notMl == <<emojiVars, audioVars, apiVars, classifyVars, poolVars>>
requestVars == <<temp_files, rpc, rname, rstaged, rerr, rstatus>>

\* the lifecycle of section 4.3, read off initialize_models
MlLifecycle ==
    CASE init_pc = "not_started" -> "Uninitialized"
      [] init_pc = "done"        -> "Ready"
      [] init_pc = "failed"      -> "FailedInit"
      [] OTHER                   -> "Loading"

\* lines 26-36: initialize_models is entered
InitializeModels ==
    /\ init_pc = "not_started"
    /\ init_pc' = "detector"
    /\ UNCHANGED <<emotion_detector, whisper_model, requestVars, ml_health, emojis_resp, notMl>>

\* line 40: emotion_detector = EmotionDetector(), or its exception (lines 54-57)
LoadEmotionDetector ==
    /\ init_pc = "detector"
    /\ \/ emotion_detector' = "loaded" /\ init_pc' = "whisper"
       \/ init_pc' = "failed" /\ UNCHANGED emotion_detector
    /\ UNCHANGED <<whisper_model, requestVars, ml_health, emojis_resp, notMl>>

\* lines 44-47: whisper_model = whisper.load_model(...), or its exception
LoadWhisper ==
    /\ init_pc = "whisper"
    /\ \/ whisper_model' = "loaded" /\ init_pc' = "done"
       \/ init_pc' = "failed" /\ UNCHANGED whisper_model
    /\ UNCHANGED <<emotion_detector, requestVars, ml_health, emojis_resp, notMl>>

\* lines 59-66: GET /health.  The answer has the three fields of lines
\* 62-66; `at` records the lifecycle state the answer was given in.
MlHealthCheck ==
    /\ ml_health' = [asked |-> TRUE,
                     models_loaded |-> emotion_detector # "None" /\ whisper_model # "None",
                     at |-> MlLifecycle,
                     fields |-> {"status", "models_loaded", "version"}]
    /\ UNCHANGED <<emotion_detector, whisper_model, init_pc, requestVars, emojis_resp, notMl>>

\* emoji_mapper.py lines 61-69: the categories get_emojis_by_category gives
get_emojis_by_category == {"great", "good", "okay", "low", "terrible"}

\* lines 157-163: GET /emojis answers 200 with the categories; it reads no
\* global of the module
GetEmojis ==
    /\ emojis_resp' = [status |-> 200, data |-> get_emojis_by_category]
    /\ UNCHANGED <<emotion_detector, whisper_model, init_pc, requestVars, ml_health, notMl>>

\* leave the handler with a status
Respond(r, code) ==
    /\ rpc' = [rpc EXCEPT ![r] = "done"]
    /\ rstatus' = [rstatus EXCEPT ![r] = code]

\* lines 80-102: the checks of the globals and of request.files, mkdir and
\* the choice of temp_file_path; mkdir's exception goes to line 147
AnalyzeBegin(r) ==
    /\ rpc[r] = "idle"
    /\ IF emotion_detector = "None" \/ whisper_model = "None"
       THEN Respond(r, 503) /\ UNCHANGED rname
       ELSE \/ Respond(r, 400) /\ UNCHANGED rname          \* 'audio' not in request.files
            \/ Respond(r, 500) /\ UNCHANGED rname          \* temp_dir.mkdir raised
            \/ \E f \in Filenames :
                   /\ rname' = [rname EXCEPT ![r] = f]
                   /\ rpc' = [rpc EXCEPT ![r] = "save"]
                   /\ UNCHANGED rstatus
    /\ UNCHANGED <<emotion_detector, whisper_model, init_pc, temp_files, rstaged, rerr,
                   ml_health, emojis_resp, notMl>>

\* line 103: audio_file.save(str(temp_file_path)), outside the try block of
\* line 105.  It opens the file for writing (creating or emptying it) and
\* copies the upload; an exception of the open leaves no file, one of the
\* copy leaves the file; either goes to line 147.
AnalyzeSave(r) ==
    /\ rpc[r] = "save"
    /\ \/ /\ temp_files' = [temp_files EXCEPT ![TempFilePath(rname[r])] = r]
          /\ rstaged' = [rstaged EXCEPT ![r] = TRUE]
          /\ rpc' = [rpc EXCEPT ![r] = "load"]
          /\ UNCHANGED rstatus
       \/ /\ temp_files' = [temp_files EXCEPT ![TempFilePath(rname[r])] = r]
          /\ rstaged' = [rstaged EXCEPT ![r] = TRUE]
          /\ Respond(r, 500)
       \/ /\ UNCHANGED <<temp_files, rstaged>>
          /\ Respond(r, 500)
    /\ UNCHANGED <<emotion_detector, whisper_model, init_pc, rname, rerr, ml_health, emojis_resp, notMl>>

\* an exception inside the try block: on to the finally clause of line 141
Raise(r, kind) ==
    /\ rpc' = [rpc EXCEPT ![r] = "finally"]
    /\ rerr' = [rerr EXCEPT ![r] = kind]

\* the exception load_audio raised, by the name section 7 of the design
\* gives it: the code raises a plain Exception and the message tells them apart
LoadErrorKind(result) ==
    IF result.msg[2] = "Audio too short" THEN "TooShortError" ELSE "DecodeError"

\* line 108: load_audio(str(temp_file_path)) on what the file now holds
AnalyzeLoad(r) ==
    /\ rpc[r] = "load"
    /\ \E u \in Uploads :
          LET file == IF temp_files[TempFilePath(rname[r])] = 0
                      THEN [decodable |-> FALSE, samples |-> 0]
                      ELSE u
          IN  IF load_audio(file).kind = "ok"
              THEN rpc' = [rpc EXCEPT ![r] = "extract"] /\ UNCHANGED rerr
              ELSE Raise(r, LoadErrorKind(load_audio(file)))
    /\ UNCHANGED <<emotion_detector, whisper_model, init_pc, temp_files, rname, rstaged,
                   rstatus, ml_health, emojis_resp, notMl>>

\* line 112: extract_audio_features, or its exception
AnalyzeExtract(r) ==
    /\ rpc[r] = "extract"
    /\ \/ rpc' = [rpc EXCEPT ![r] = "predict"] /\ UNCHANGED rerr
       \/ Raise(r, "FeatureExtractionError")
    /\ UNCHANGED <<emotion_detector, whisper_model, init_pc, temp_files, rname, rstaged,
                   rstatus, ml_health, emojis_resp, notMl>>

\* line 116, emotion_detector.predict entered: the thread is inside the
\* model's forward computation (emotion_detector.py lines 60-62)
AnalyzePredictEnter(r) ==
    /\ rpc[r] = "predict"
    /\ rpc' = [rpc EXCEPT ![r] = "forward"]
    /\ UNCHANGED <<emotion_detector, whisper_model, init_pc, temp_files, rname, rstaged,
                   rerr, rstatus, ml_health, emojis_resp, notMl>>

\* lines 116-119: predict returns and emotions_to_emojis(emotion_scores,
\* top_k=3) runs, or predict raises
AnalyzePredictExit(r) ==
    /\ rpc[r] = "forward"
    /\ \/ rpc' = [rpc EXCEPT ![r] = "transcribe"] /\ UNCHANGED rerr
       \/ Raise(r, "InferenceError")
    /\ UNCHANGED <<emotion_detector, whisper_model, init_pc, temp_files, rname, rstaged,
                   rstatus, ml_health, emojis_resp, notMl>>

\* lines 123-128: whisper_model.transcribe(str(temp_file_path)) reads the
\* file again; it raises when the file is gone, and may raise anyway
AnalyzeTranscribe(r) ==
    /\ rpc[r] = "transcribe"
    /\ \/ /\ temp_files[TempFilePath(rname[r])] # 0
          /\ rpc' = [rpc EXCEPT ![r] = "finally"]
          /\ UNCHANGED rerr
       \/ Raise(r, "TranscriptionError")
    /\ UNCHANGED <<emotion_detector, whisper_model, init_pc, temp_files, rname, rstaged,
                   rstatus, ml_health, emojis_resp, notMl>>

\* the status once the finally clause is through: line 139 or line 155
StatusAfterTry(r) == IF rerr[r] # "none" THEN 500 ELSE 200

\* line 143: if temp_file_path.exists()
AnalyzeFinally(r) ==
    /\ rpc[r] = "finally"
    /\ IF temp_files[TempFilePath(rname[r])] # 0
       THEN rpc' = [rpc EXCEPT ![r] = "unlink"] /\ UNCHANGED rstatus
       ELSE Respond(r, StatusAfterTry(r))
    /\ UNCHANGED <<emotion_detector, whisper_model, init_pc, temp_files, rname, rstaged,
                   rerr, ml_health, emojis_resp, notMl>>

\* line 144: temp_file_path.unlink(); FileNotFoundError, when another thread
\* removed the file since line 143, goes to line 147
AnalyzeUnlink(r) ==
    /\ rpc[r] = "unlink"
    /\ IF temp_files[TempFilePath(rname[r])] # 0
       THEN /\ temp_files' = [temp_files EXCEPT ![TempFilePath(rname[r])] = 0]
            /\ Respond(r, StatusAfterTry(r))
       ELSE /\ UNCHANGED temp_files
            /\ Respond(r, 500)
    /\ UNCHANGED <<emotion_detector, whisper_model, init_pc, rname, rstaged, rerr,
                   ml_health, emojis_resp, notMl>>

\* the response is sent; the thread takes the next request
AnalyzeDone(r) ==
    /\ rpc[r] = "done"
    /\ rpc' = [rpc EXCEPT ![r] = "idle"]
    /\ rname' = [rname EXCEPT ![r] = "none"]
    /\ rstaged' = [rstaged EXCEPT ![r] = FALSE]
    /\ rerr' = [rerr EXCEPT ![r] = "none"]
    /\ rstatus' = [rstatus EXCEPT ![r] = 0]
    /\ UNCHANGED <<emotion_detector, whisper_model, init_pc, temp_files, ml_health, emojis_resp, notMl>>

(***************************************************************************)
(* Model/app.py.  As above, the handlers run whenever the app object is    *)
(* served; only the __main__ block calls load_model.                       *)
(***************************************************************************)
NoResponse == [status |-> 0, ran_inference |-> FALSE, at |-> "none", body |-> "none",
               path |-> "none"]

InitApi ==
    /\ model = "None"
    /\ feature_extractor = "None"
    /\ device = "None"
    /\ load_pc = "not_started"
    /\ predict_resp = NoResponse
    /\ api_health = [asked |-> FALSE, model_loaded |-> FALSE, device |-> "none"]

notApi == <<emojiVars, audioVars, mlVars, classifyVars, poolVars>>

ApiLifecycle ==
    CASE load_pc = "not_started" -> "Uninitialized"
      [] load_pc = "done"        -> "Ready"
      [] load_pc = "failed"      -> "FailedInit"
      [] OTHER                   -> "Loading"

\* lines 112-119: load_model is entered and sets device
LoadSetDevice ==
    /\ load_pc = "not_started"
    /\ device' = "cpu"
    /\ load_pc' = "config"
    /\ UNCHANGED <<model, feature_extractor, predict_resp, api_health, notApi>>

\* line 123: AutoConfig.from_pretrained, or its exception
LoadConfig ==
    /\ load_pc = "config"
    /\ load_pc' \in {"create", "failed"}
    /\ UNCHANGED <<model, feature_extractor, device, predict_resp, api_health, notApi>>

\* line 126: model = Wav2Vec2ForSpeechClassification(config): the global is
\* set before the trained weights are read
LoadCreateModel ==
    /\ load_pc = "create"
    /\ model' = "created"
    /\ load_pc' = "weights"
    /\ UNCHANGED <<feature_extractor, device, predict_resp, api_health, notApi>>

\* lines 129-146: load_file, load_state_dict, model.to(device), model.eval(),
\* or load_file's exception
LoadWeights ==
    /\ load_pc = "weights"
    /\ \/ model' = "trained" /\ load_pc' = "extractor"
       \/ load_pc' = "failed" /\ UNCHANGED model
    /\ UNCHANGED <<feature_extractor, device, predict_resp, api_health, notApi>>

\* line 149: feature_extractor = AutoFeatureExtractor.from_pretrained, or
\* its exception
LoadFeatureExtractor ==
    /\ load_pc = "extractor"
    /\ \/ feature_extractor' = "loaded" /\ load_pc' = "done"
       \/ load_pc' = "failed" /\ UNCHANGED feature_extractor
    /\ UNCHANGED <<model, device, predict_resp, api_health, notApi>>

\* lines 230-237: GET /health
ApiHealthCheck ==
    /\ api_health' = [asked |-> TRUE,
                      model_loaded |-> model # "None",
                      device |-> IF device # "None" THEN device ELSE "not initialized"]
    /\ UNCHANGED <<model, feature_extractor, device, load_pc, predict_resp, notApi>>

\* The request body of POST /predict as request.get_json() of line 265 sees
\* it: "none" is a body it returns None for (JSON null); "unparsable" is a
\* request of JSON content type whose body is absent or is not JSON, for
\* which get_json raises BadRequest; then an empty object, an object without
\* audio_path, an object with it
Bodies == {"none", "unparsable", "empty", "no_audio_path", "audio_path"}

\* what audio_path names
PathKinds == {"missing", "directory", "file"}

\* lines 154-190: predict_emotion.  librosa.load raises on an undecodable
\* file; calling the global feature_extractor or model while it is None
\* raises TypeError; the forward pass may raise.  Gives <<status, whether
\* model(**inputs) of line 173 ran>>; every exception goes to line 312.
predict_emotion(decodable, forward_ok) ==
    IF ~decodable THEN <<500, FALSE>>
    ELSE IF feature_extractor = "None" THEN <<500, FALSE>>
    ELSE IF model = "None" THEN <<500, FALSE>>
    ELSE IF ~forward_ok THEN <<500, TRUE>>
    ELSE <<200, TRUE>>

\* lines 263-317: the handler of POST /predict.  get_json is called inside
\* the try of line 263, so what it raises reaches `except Exception` of line
\* 312 and is answered 500.
PredictOutcome(body, path, decodable, forward_ok) ==
    IF body = "unparsable" THEN <<500, FALSE>>
    ELSE IF body \in {"none", "empty"} THEN <<400, FALSE>>
    ELSE IF body = "no_audio_path" THEN <<400, FALSE>>
    ELSE IF path = "missing" THEN <<404, FALSE>>
    ELSE IF path = "directory" THEN <<400, FALSE>>
    ELSE predict_emotion(decodable, forward_ok)

\* a handler that builds the model object anew for each request
PredictRebuilding ==
    /\ \E body \in Bodies, path \in PathKinds, decodable \in BOOLEAN, forward_ok \in BOOLEAN :
          LET out == PredictOutcome(body, path, decodable, forward_ok)
          IN  predict_resp' = [status |-> out[1], ran_inference |-> out[2],
                               at |-> ApiLifecycle, body |-> body,
                               path |-> IF body = "audio_path" THEN path ELSE "none"]
    /\ model' = "created"
    /\ UNCHANGED <<feature_extractor, device, load_pc, api_health, notApi>>

\* the handler of POST /predict as one step, its answer kept in predict_resp
Predict ==
    /\ \E body \in Bodies, path \in PathKinds, decodable \in BOOLEAN, forward_ok \in BOOLEAN :
          LET out == PredictOutcome(body, path, decodable, forward_ok)
          IN  predict_resp' = [status |-> out[1], ran_inference |-> out[2],
                               at |-> ApiLifecycle, body |-> body,
                               path |-> IF body = "audio_path" THEN path ELSE "none"]
    /\ UNCHANGED <<model, feature_extractor, device, load_pc, api_health, notApi>>

(***************************************************************************)
(* The scoring that follows the forward pass: predict_emotion of           *)
(* Model/app.py (lines 171-190) and EmotionDetector.predict of             *)
(* ml-service/utils/emotion_detector.py (lines 59-80), then the            *)
(* emotionScores of the /analyze answer (ml-service/app.py 133-139).       *)
(***************************************************************************)
\* Model/app.py line 25
EMOTIONS ==
    <<"angry", "calm", "disgust", "fearful", "happy", "neutral", "sad", "surprised">>

\* emotion_detector.py line 34: self.emotion_labels = self.model.config.id2label,
\* the labels of the pretrained model config.EMOTION_MODEL_NAME names, the one
\* MODEL_PATH of Model/app.py holds; index idx of Python is position idx + 1
emotion_labels == EMOTIONS

\* config.num_labels, the width of out_proj (Model/app.py line 37) and of the logits
num_labels == Len(EMOTIONS)

\* largest logit; a logit k stands for the real number k * ln 2, so that
\* exp(logit) is the integer 2^k
MaxLogit == 2

Logits == 0..MaxLogit

LogitVectors == [1..num_labels -> Logits]

\* a float32 probability p is held as the integer nearest to p * PROB_SCALE;
\* 2^24 is the resolution of float32 below 1.0
PROB_SCALE == 16777216

RECURSIVE SumSeq(_)
SumSeq(s) == IF s = <<>> THEN 0 ELSE s[Len(s)] + SumSeq(SubSeq(s, 1, Len(s) - 1))

\* exp(x_i) / max_j exp(x_j): no division by the sum
DividedByMax(x) ==
    LET e    == [i \in DOMAIN x |-> 2 ^ x[i]]
        top  == CHOOSE m \in Range(e) : \A v \in Range(e) : v <= m
    IN  [i \in DOMAIN x |-> (2 * e[i] * PROB_SCALE + top) \div (2 * top)]

\* torch.nn.functional.softmax(logits, dim): exp(x_i) / sum_j exp(x_j),
\* each quotient rounded to the nearest representable probability
softmax(x) ==
    LET e     == [i \in DOMAIN x |-> 2 ^ x[i]]
        total == SumSeq(e)
    IN  [i \in DOMAIN x |-> (2 * e[i] * PROB_SCALE + total) \div (2 * total)]

\* the position of the smallest score
ArgMin(scores) ==
    CHOOSE i \in DOMAIN scores :
        /\ \A j \in DOMAIN scores : scores[j] >= scores[i]
        /\ \A j \in DOMAIN scores : j < i => scores[j] > scores[i]

\* np.argmax(scores): the position of the largest score, the first one
\* among equals
argmax(scores) ==
    CHOOSE i \in DOMAIN scores :
        /\ \A j \in DOMAIN scores : scores[j] <= scores[i]
        /\ \A j \in DOMAIN scores : j < i => scores[j] < scores[i]

\* {emotion: float(score) for emotion, score in zip(EMOTIONS, scores)}:
\* zip stops at the shorter of the two
ZipDict(names, scores) ==
    LET n == Min(Len(names), Len(scores))
    IN  [e \in {names[i] : i \in 1..n} |->
            scores[CHOOSE i \in 1..n : names[i] = e /\ \A j \in (i + 1)..n : names[j] # e]]

\* Model/app.py lines 176-190: the dictionary predict_emotion builds from
\* the logits
predict_emotion_results(x) ==
    LET scores       == softmax(x)
        predicted_id == argmax(scores)
    IN  [predicted_emotion |-> EMOTIONS[predicted_id],
         confidence        |-> scores[predicted_id],
         all_scores        |-> ZipDict(EMOTIONS, scores)]

\* emotion_detector.py lines 69-75: one entry per position of probs
RECURSIVE EnumerateScores(_)
EnumerateScores(probs) ==
    IF probs = <<>> THEN <<>>
    ELSE Append(EnumerateScores(SubSeq(probs, 1, Len(probs) - 1)),
                [emotion |-> emotion_labels[Len(probs)], score |-> probs[Len(probs)]])

RECURSIVE InsertByScore(_, _)
InsertByScore(sorted, x) ==
    IF sorted = <<>> THEN <<x>>
    ELSE IF sorted[Len(sorted)].score >= x.score THEN Append(sorted, x)
    ELSE Append(InsertByScore(SubSeq(sorted, 1, Len(sorted) - 1), x),
                sorted[Len(sorted)])

\* the same sort without reverse=True: ascending
RECURSIVE SortedAscending(_)
SortedAscending(entries) ==
    IF entries = <<>> THEN <<>>
    ELSE LET rest == SortedAscending(SubSeq(entries, 1, Len(entries) - 1))
             x    == entries[Len(entries)]
             n    == Cardinality({i \in 1..Len(rest) : rest[i].score <= x.score})
         IN  SubSeq(rest, 1, n) \o <<x>> \o SubSeq(rest, n + 1, Len(rest))

\* line 78: emotion_scores.sort(key=lambda x: x['score'], reverse=True),
\* a stable descending sort
RECURSIVE SortedByScore(_)
SortedByScore(entries) ==
    IF entries = <<>> THEN <<>>
    ELSE InsertByScore(SortedByScore(SubSeq(entries, 1, Len(entries) - 1)),
                       entries[Len(entries)])

\* emotion_detector.py lines 65-80: what predict returns for the logits
EmotionDetector_predict(x) == SortedByScore(EnumerateScores(softmax(x)))

InitClassify ==
    /\ logits = <<>>
    /\ cls_pc = "idle"
    /\ results = [kind |-> "none"]
    /\ score_list = <<>>
    /\ emotionScores = <<>>

\* Model/app.py line 173: logits = model(**inputs).logits
ModelForward ==
    /\ cls_pc = "idle"
    /\ logits' \in LogitVectors
    /\ cls_pc' = "model_logits"
    /\ UNCHANGED <<results, score_list, emotionScores, emojiVars, audioVars, mlVars,
                   apiVars, poolVars>>

\* Model/app.py lines 176-190
PredictEmotionResults ==
    /\ cls_pc = "model_logits"
    /\ results' = predict_emotion_results(logits)
    /\ cls_pc' = "model_returned"
    /\ UNCHANGED <<logits, score_list, emotionScores, emojiVars, audioVars, mlVars,
                   apiVars, poolVars>>

\* emotion_detector.py lines 60-62: logits = self.model(**inputs).logits
DetectorForward ==
    /\ cls_pc = "idle"
    /\ logits' \in LogitVectors
    /\ cls_pc' = "detector_logits"
    /\ UNCHANGED <<results, score_list, emotionScores, emojiVars, audioVars, mlVars,
                   apiVars, poolVars>>

\* emotion_detector.py lines 65-80
DetectorPredictReturn ==
    /\ cls_pc = "detector_logits"
    /\ score_list' = EmotionDetector_predict(logits)
    /\ cls_pc' = "detector_returned"
    /\ UNCHANGED <<logits, results, emotionScores, emojiVars, audioVars, mlVars,
                   apiVars, poolVars>>

\* ml-service/app.py line 137: 'emotionScores': emotion_scores[:5]
AnalyzeRespond ==
    /\ cls_pc = "detector_returned"
    /\ emotionScores' = PySlicePrefix(score_list, 5)
    /\ cls_pc' = "responded"
    /\ UNCHANGED <<logits, results, score_list, emojiVars, audioVars, mlVars,
                   apiVars, poolVars>>

(***************************************************************************)
(* Model/app.py, class Wav2Vec2ForSpeechClassification: the pooling of     *)
(* the encoder's frames (lines 50-59, 64-73, 84-85).                       *)
(***************************************************************************)
\* most frames in one hidden_states
MaxFrames == 2
\* features per frame (config.hidden_size)
HiddenSize == 2

FrameValues == {-1, 0, 1}

Frames == [1..HiddenSize -> FrameValues]

FrameSeqs == UNION {[1..n -> Frames] : n \in 0..MaxFrames}

\* what config.pooling_mode holds; "absent" is a config without the attribute
PoolingConfigs == {"absent", "mean", "sum", "max", "median", "attention"}

\* line 72
PoolingMessage ==
    "The pooling method hasn't been defined! Your pooling mode must be one of these ['mean', 'sum', 'max']"

\* feature d of every frame, in order
Column(hs, d) == [t \in 1..Len(hs) |-> hs[t][d]]

\* torch.mean(hidden_states, dim=1): per feature the sum over the frames
\* divided by their number, held as <<sum, number>>; over no frames it is
\* 0/0, NaN, and nothing is raised
TorchMean(hs) == [d \in 1..HiddenSize |-> <<SumSeq(Column(hs, d)), Len(hs)>>]

\* torch.sum(hidden_states, dim=1)
TorchSum(hs) == [d \in 1..HiddenSize |-> SumSeq(Column(hs, d))]

\* torch.max(hidden_states, dim=1)[0]; defined over at least one frame
TorchMax(hs) ==
    [d \in 1..HiddenSize |->
        CHOOSE m \in Range(Column(hs, d)) : \A v \in Range(Column(hs, d)) : v <= m]

\* a merged_strategy whose last branch pools by mean instead of raising
MeanByDefault(hs, mode) ==
    IF mode = "mean" THEN [kind |-> "ok", value |-> TorchMean(hs)]
    ELSE IF mode = "sum" THEN [kind |-> "ok", value |-> TorchSum(hs)]
    ELSE IF mode = "max"
    THEN IF Len(hs) = 0
         THEN [kind |-> "raise", type |-> "IndexError", msg |-> "max(): empty reduction"]
         ELSE [kind |-> "ok", value |-> TorchMax(hs)]
    ELSE [kind |-> "ok", value |-> TorchMean(hs)]

\* lines 64-73: merged_strategy(hidden_states, mode).  torch.max over a
\* dimension of size 0 raises; torch.mean and torch.sum do not.
merged_strategy(hs, mode) ==
    IF mode = "mean" THEN [kind |-> "ok", value |-> TorchMean(hs)]
    ELSE IF mode = "sum" THEN [kind |-> "ok", value |-> TorchSum(hs)]
    ELSE IF mode = "max"
    THEN IF Len(hs) = 0
         THEN [kind |-> "raise", type |-> "IndexError", msg |-> "max(): empty reduction"]
         ELSE [kind |-> "ok", value |-> TorchMax(hs)]
    ELSE [kind |-> "raise", type |-> "Exception", msg |-> PoolingMessage]

InitPool ==
    /\ pooling_mode = "unset"
    /\ hidden_states = <<>>
    /\ pooled = [kind |-> "none"]

\* lines 50-59: __init__; line 53 is
\* self.pooling_mode = getattr(config, 'pooling_mode', 'mean')
ConstructClassifier ==
    /\ pooling_mode = "unset"
    /\ \E configured \in PoolingConfigs :
          pooling_mode' = IF configured = "absent" THEN "mean" ELSE configured
    /\ UNCHANGED <<hidden_states, pooled, emojiVars, audioVars, mlVars, apiVars,
                   classifyVars>>

\* lines 84-85 of forward: hidden_states = outputs[0], then
\* merged_strategy(hidden_states, mode=self.pooling_mode)
ForwardPooling ==
    /\ pooling_mode # "unset"
    /\ pooled.kind = "none"
    /\ \E hs \in FrameSeqs :
          /\ hidden_states' = hs
          /\ pooled' = merged_strategy(hs, pooling_mode)
    /\ UNCHANGED <<pooling_mode, emojiVars, audioVars, mlVars, apiVars, classifyVars>>

(***************************************************************************)
(* The specifications.                                                     *)
(***************************************************************************)
Init == InitEmoji /\ InitAudio /\ InitMl /\ InitApi /\ InitClassify /\ InitPool

NextEmoji == AppendScore \/ CallEmotionsToEmojis

SpecEmoji == Init /\ [][NextEmoji]_vars

NextAudio == ChooseFile \/ CallLoadAudio

SpecAudio == Init /\ [][NextAudio]_vars

NextMl ==
    \/ InitializeModels
    \/ LoadEmotionDetector
    \/ LoadWhisper
    \/ MlHealthCheck
    \/ \E r \in Threads :
          \/ AnalyzeBegin(r)
          \/ AnalyzeSave(r)
          \/ AnalyzeLoad(r)
          \/ AnalyzeExtract(r)
          \/ AnalyzePredictEnter(r)
          \/ AnalyzePredictExit(r)
          \/ AnalyzeTranscribe(r)
          \/ AnalyzeFinally(r)
          \/ AnalyzeUnlink(r)
          \/ AnalyzeDone(r)

SpecMl == Init /\ [][NextMl]_vars

NextApi ==
    \/ LoadSetDevice
    \/ LoadConfig
    \/ LoadCreateModel
    \/ LoadWeights
    \/ LoadFeatureExtractor
    \/ ApiHealthCheck
    \/ Predict

SpecModelApi == Init /\ [][NextApi]_vars

NextClassify ==
    \/ ModelForward
    \/ PredictEmotionResults
    \/ DetectorForward
    \/ DetectorPredictReturn
    \/ AnalyzeRespond

SpecClassify == Init /\ [][NextClassify]_vars

NextPooling == ConstructClassifier \/ ForwardPooling

SpecPooling == Init /\ [][NextPooling]_vars

\* the request thread the side-by-side specification follows
FirstThread == CHOOSE r \in Threads : \A q \in Threads : r <= q

\* both processes side by side: initialize_models, /emojis and /analyze (on
\* one request thread) of ml-service, load_model, /health and /predict of
\* Model/app.py
NextServices ==
    \/ InitializeModels
    \/ LoadEmotionDetector
    \/ LoadWhisper
    \/ GetEmojis
    \/ \E r \in {FirstThread} :
          \/ AnalyzeBegin(r)
          \/ AnalyzeSave(r)
          \/ AnalyzeLoad(r)
          \/ AnalyzeExtract(r)
          \/ AnalyzePredictEnter(r)
          \/ AnalyzePredictExit(r)
          \/ AnalyzeTranscribe(r)
          \/ AnalyzeFinally(r)
          \/ AnalyzeUnlink(r)
          \/ AnalyzeDone(r)
    \/ LoadSetDevice
    \/ LoadConfig
    \/ LoadCreateModel
    \/ LoadWeights
    \/ LoadFeatureExtractor
    \/ ApiHealthCheck
    \/ Predict

SpecServices == Init /\ [][NextServices]_vars

(***************************************************************************)
(* Claims about emotions_to_emojis (SpecEmoji).                            *)
(***************************************************************************)
Returned == epc = "returned"

\* the indices of the entries the function is said to consider
Leading == 1..Min(5, Len(emotion_scores))

LabelAt(i) == Lower(emotion_scores[i].emotion)

NoDuplicates(s) == \A i, j \in 1..Len(s) : i # j => s[i] # s[j]

\* C1: for every ScoreList and every top_k >= 0 the returned list has at
\* most top_k elements.
C1_LengthAtMostTopK ==
    (Returned /\ top_k >= 0) => Len(suggested_emojis) <= top_k

\* C2: the returned list holds no symbol twice, also when two considered
\* labels list the same symbol.
C2_NoDuplicateSymbols ==
    Returned => NoDuplicates(suggested_emojis)

\* a call whose considered entries hold both 'sad' and 'neutral', which
\* share a symbol, and which returned that symbol
C2_Witness ==
    /\ Returned
    /\ \E i, j \in Leading : LabelAt(i) = "sad" /\ LabelAt(j) = "neutral"
    /\ "neutral1_sad3" \in Range(suggested_emojis)
    /\ Len(suggested_emojis) >= 4

\* C3: when the list is empty or no considered entry has a lower-cased
\* label in the mapping, the result is exactly the 3-symbol default list.
C3_DefaultWhenNoCandidate ==
    (Returned /\ \A i \in Leading : LabelAt(i) \notin MappedEmotions)
        => /\ suggested_emojis = <<"neutral1_sad3", "neutral2", "neutral3">>
           /\ Len(suggested_emojis) = 3

\* a call with a non-empty, fully unmapped list and a top_k other than 3
C3_Witness ==
    /\ Returned
    /\ emotion_scores # <<>>
    /\ \A i \in Leading : LabelAt(i) \notin MappedEmotions
    /\ top_k = 1
    /\ suggested_emojis = DefaultEmojis

\* The reference of C4, stated without the function's loops: a candidate
\* is a pair <<i, j>>, entry i's j-th symbol.
RefPairs ==
    {p \in Leading \X (1..3) :
        /\ LabelAt(p[1]) \in MappedEmotions
        /\ p[2] <= Len(EMOTION_TO_EMOJI[LabelAt(p[1])])}
RefEmoji(p) == EMOTION_TO_EMOJI[LabelAt(p[1])][p[2]]
RefWeight(p) == emotion_scores[p[1]].score
\* p comes before q once stable-sorted by weight descending
RefBefore(p, q) ==
    \/ RefWeight(p) > RefWeight(q)
    \/ /\ RefWeight(p) = RefWeight(q)
       /\ \/ p[1] < q[1]
          \/ p[1] = q[1] /\ p[2] < q[2]
\* the first occurrences of their symbols
RefKeptOf(pairs) ==
    {p \in pairs : \A q \in pairs : RefBefore(q, p) => RefEmoji(q) # RefEmoji(p)}

\* C4: with at least one candidate and top_k >= 0, the result is the first
\* top_k symbols of the reference (candidates in label-rank then emoji-set
\* order, stable-sorted by weight descending, first occurrence kept); its
\* weights do not increase and its first symbol is the first symbol of the
\* first considered label of the highest weight.
C4_MatchesReference ==
    (Returned /\ top_k >= 0 /\ \E i \in Leading : LabelAt(i) \in MappedEmotions) =>
        LET kept == RefKeptOf(RefPairs)
            pos  == [p \in kept |-> 1 + Cardinality({q \in kept : RefBefore(q, p)})]
            \* the weight an output symbol carries: that of its first occurrence
            weightOf == [e \in {RefEmoji(p) : p \in kept} |->
                            RefWeight(CHOOSE p \in kept : RefEmoji(p) = e)]
            out  == suggested_emojis
        IN  /\ Len(out) = Min(top_k, Cardinality(kept))
            /\ \A p \in kept : pos[p] <= top_k => out[pos[p]] = RefEmoji(p)
            /\ \A i \in 1..(Len(out) - 1) : weightOf[out[i]] >= weightOf[out[i + 1]]
            /\ top_k >= 1 =>
                   \E i \in Leading :
                       /\ LabelAt(i) \in MappedEmotions
                       /\ \A j \in Leading : LabelAt(j) \in MappedEmotions =>
                              \/ emotion_scores[j].score < emotion_scores[i].score
                              \/ emotion_scores[j].score = emotion_scores[i].score /\ i <= j
                       /\ out[1] = EMOTION_TO_EMOJI[LabelAt(i)][1]

\* a call on a list that is not sorted, with two labels of equal weight
\* behind a lighter one, whose result mixes both labels' symbols
C4_Witness ==
    /\ Returned
    /\ top_k = 4
    /\ Len(emotion_scores) >= 3
    /\ LabelAt(1) = "neutral" /\ emotion_scores[1].score = 1
    /\ LabelAt(2) = "sad" /\ emotion_scores[2].score = 2
    /\ LabelAt(3) = "neutral" /\ emotion_scores[3].score = 2
    /\ suggested_emojis = <<"sad1", "sad2", "neutral1_sad3", "neutral2">>

\* C5: only the first min(5, len) entries count: the result is the one the
\* function gives on that prefix alone, every returned symbol of a run with
\* a candidate belongs to one of those entries' labels, and the default list
\* is returned exactly when none of those entries is mapped.
C5_OnlyFirstFive ==
    Returned =>
        /\ suggested_emojis =
               emotions_to_emojis(SubSeq(emotion_scores, 1, Min(5, Len(emotion_scores))), top_k)
        /\ (\E i \in Leading : LabelAt(i) \in MappedEmotions) =>
               \A e \in Range(suggested_emojis) :
                   \E i \in Leading :
                       /\ LabelAt(i) \in MappedEmotions
                       /\ e \in Range(EMOTION_TO_EMOJI[LabelAt(i)])
        /\ (\A i \in Leading : LabelAt(i) \notin MappedEmotions) =>
               suggested_emojis = <<"neutral1_sad3", "neutral2", "neutral3">>

\* a call with a mapped sixth entry whose label is not among the first
\* five, and a top_k above the number of symbols returned
C5_Witness ==
    /\ Returned
    /\ Len(emotion_scores) >= 6
    /\ LabelAt(6) = "sad"
    /\ \A i \in Leading : LabelAt(i) # "sad"
    /\ \E i \in Leading : LabelAt(i) = "neutral"
    /\ top_k > Len(suggested_emojis)
    /\ "sad1" \notin Range(suggested_emojis)

(***************************************************************************)
(* Claims about load_audio (SpecAudio).                                    *)
(***************************************************************************)
Loaded == apc = "returned"

\* C6: every decoded signal shorter than the minimum duration makes
\* load_audio fail with the too-short error and return no signal.
C6_TooShortAlwaysFails ==
    (Loaded /\ audio_file.decodable /\ audio_file.samples < 1 * 16000) =>
        /\ loaded.kind = "raise"
        /\ loaded.msg = <<"Error loading audio file", "Audio too short">>

\* a recording one sample short of a second, refused
C6_Witness ==
    /\ Loaded
    /\ audio_file.decodable
    /\ audio_file.samples = 15999
    /\ loaded.kind = "raise"

\* C7: a decoded signal longer than the maximum is returned, without an
\* error, as its first maximum * sample_rate samples; every returned signal
\* lasts between the minimum and the maximum.
C7_OverlongIsTruncated ==
    Loaded =>
        /\ (audio_file.decodable /\ audio_file.samples > 60 * 16000) =>
               /\ loaded.kind = "ok"
               /\ loaded.audio = [first |-> 1, count |-> 60 * 16000]
        /\ loaded.kind = "ok" =>
               /\ loaded.sr = 16000
               /\ loaded.audio.first = 1
               /\ 1 * loaded.sr <= loaded.audio.count
               /\ loaded.audio.count <= 60 * loaded.sr

\* a recording one sample over 60 s, returned cut to 60 s
C7_Witness ==
    /\ Loaded
    /\ audio_file.decodable
    /\ audio_file.samples = 960001
    /\ loaded.kind = "ok"
    /\ loaded.audio.count = 960000

(***************************************************************************)
(* Claims about the services (SpecModelApi, SpecMl).                       *)
(***************************************************************************)
\* C8: a well-formed inference request (POST /predict naming an existing
\* file) that arrives while the classifier is not Ready runs no inference
\* and is answered 503.
C8_NotReadyIs503 ==
    (/\ predict_resp.status # 0
     /\ predict_resp.body = "audio_path"
     /\ predict_resp.path = "file"
     /\ predict_resp.at # "Ready")
        => /\ predict_resp.status = 503
           /\ ~predict_resp.ran_inference

\* C9: when a request that staged its upload returns, the staged file does
\* not exist, whichever way the request ended.
C9_TempFileGoneOnReturn ==
    \A r \in Threads :
        (rpc[r] = "done" /\ rstaged[r]) => temp_files[TempFilePath(rname[r])] = 0

\* a request has chosen its temporary path and has not returned yet
InFlight(r) ==
    rpc[r] \in {"save", "load", "extract", "predict", "forward", "transcribe",
                "finally", "unlink"}

\* a request is between its save and the end of its transcription
UsingFile(r) == rpc[r] \in {"load", "extract", "predict", "forward", "transcribe"}

\* C10: two calls in flight at the same time have different temporary
\* paths, so the file a call staged stays present and its own while the
\* call loads or transcribes it.
C10_DistinctTempPaths ==
    /\ \A r1, r2 \in Threads :
           (r1 # r2 /\ InFlight(r1) /\ InFlight(r2))
               => TempFilePath(rname[r1]) # TempFilePath(rname[r2])
    /\ \A r \in Threads :
           UsingFile(r) => temp_files[TempFilePath(rname[r])] = r

\* C11: an upload whose audio is unusable (undecodable, too short, or
\* failing feature extraction) is answered by /analyze with 400, never 500.
C11_UnusableAudioIs400 ==
    \A r \in Threads :
        (/\ rpc[r] = "done"
         /\ rerr[r] \in {"DecodeError", "TooShortError", "FeatureExtractionError"})
            => rstatus[r] = 400

\* C12: POST /predict answers 400 when the JSON body is missing or has no
\* audio_path, 404 when audio_path names nothing, and in neither case runs
\* the classifier.
C12_BadRequestsRejectedBeforeInference ==
    predict_resp.status # 0 =>
        /\ predict_resp.body \in {"none", "unparsable", "empty", "no_audio_path"}
              => /\ predict_resp.status = 400
                 /\ ~predict_resp.ran_inference
        /\ (predict_resp.body = "audio_path" /\ predict_resp.path = "missing")
              => /\ predict_resp.status = 404
                 /\ ~predict_resp.ran_inference

\* C16: GET /health reports the models as loaded exactly when the lifecycle
\* has reached Ready, and its answer names the active compute device.
C16_HealthReportsReadyAndDevice ==
    ml_health.asked =>
        /\ ml_health.models_loaded <=> (ml_health.at = "Ready")
        /\ "device" \in ml_health.fields

\* C17: no two requests are inside the classifier's forward computation at
\* the same time.
C17_ForwardIsSerialized ==
    \A r1, r2 \in Threads :
        (rpc[r1] = "forward" /\ rpc[r2] = "forward") => r1 = r2

\* C13: in a successful prediction predicted_emotion is a label whose value
\* in all_scores is the largest, confidence is that value, and all_scores
\* has exactly one entry per label of EMOTIONS.
C13_PredictedIsArgmax ==
    cls_pc = "model_returned" =>
        LET all == results.all_scores
        IN  /\ DOMAIN all = Range(EMOTIONS)
            /\ Cardinality(DOMAIN all) = num_labels
            /\ results.predicted_emotion \in DOMAIN all
            /\ \A e \in DOMAIN all : all[e] <= all[results.predicted_emotion]
            /\ results.confidence = all[results.predicted_emotion]

\* a prediction where two labels share the largest score
C13_Witness ==
    /\ cls_pc = "model_returned"
    /\ \E e \in DOMAIN results.all_scores :
          /\ e # results.predicted_emotion
          /\ results.all_scores[e] = results.confidence
    /\ \E e \in DOMAIN results.all_scores : results.all_scores[e] < results.confidence

\* C14: the list EmotionDetector.predict returns has exactly one entry per
\* label and no other, in non-increasing order of score, and emotionScores
\* of the /analyze answer are its first five: no entry left out scores
\* higher than one kept.
C14_ScoreListCoversLabelsSorted ==
    cls_pc \in {"detector_returned", "responded"} =>
        /\ Len(score_list) = num_labels
        /\ {score_list[i].emotion : i \in 1..Len(score_list)} = Range(emotion_labels)
        /\ \A i, j \in 1..Len(score_list) :
              i < j => /\ score_list[i].emotion # score_list[j].emotion
                       /\ score_list[i].score >= score_list[j].score
        /\ cls_pc = "responded" =>
              /\ Len(emotionScores) = 5
              /\ \A i \in 1..5 : emotionScores[i] = score_list[i]
              /\ \A i \in 1..5 : \A j \in 6..Len(score_list) :
                    score_list[j].score <= emotionScores[i].score

\* an answer made from logits that were not in descending order already
C14_Witness ==
    /\ cls_pc = "responded"
    /\ logits[1] < logits[num_labels]
    /\ emotionScores[1].score > emotionScores[5].score

\* C15: every probability handed back lies in [0, 1] and the probabilities
\* over the label set sum to 1.0 within 1e-4 (in units of 1/PROB_SCALE).
C15_ProbabilitiesSumToOne ==
    LET Within(total) ==
            /\ total - PROB_SCALE <= PROB_SCALE \div 10000
            /\ PROB_SCALE - total <= PROB_SCALE \div 10000
    IN  /\ cls_pc = "model_returned" =>
              LET all == results.all_scores
                  seq == [i \in 1..num_labels |-> all[EMOTIONS[i]]]
              IN  /\ \A e \in DOMAIN all : all[e] >= 0 /\ all[e] <= PROB_SCALE
                  /\ results.confidence >= 0 /\ results.confidence <= PROB_SCALE
                  /\ Within(SumSeq(seq))
        /\ cls_pc \in {"detector_returned", "responded"} =>
              LET seq == [i \in 1..Len(score_list) |-> score_list[i].score]
              IN  /\ \A i \in 1..Len(seq) : seq[i] >= 0 /\ seq[i] <= PROB_SCALE
                  /\ Within(SumSeq(seq))

\* scores of unequal logits whose rounded values do not add up to PROB_SCALE
C15_Witness ==
    /\ cls_pc = "detector_returned"
    /\ score_list[1].score > score_list[num_labels].score
    /\ SumSeq([i \in 1..Len(score_list) |-> score_list[i].score]) # PROB_SCALE

\* C18: pooling with a mode other than 'mean', 'sum', 'max' raises the
\* exception of line 72 and gives no value; the three modes give a value
\* for every non-empty frame sequence.
C18_UnsupportedPoolingRaises ==
    pooled.kind # "none" =>
        /\ pooling_mode \notin {"mean", "sum", "max"}
              => /\ pooled.kind = "raise"
                 /\ pooled.msg = PoolingMessage
        /\ (pooling_mode \in {"mean", "sum", "max"} /\ Len(hidden_states) > 0)
              => pooled.kind = "ok"

\* frames pooled under a mode the class does not know
C18_Witness ==
    /\ pooling_mode = "median"
    /\ Len(hidden_states) > 0
    /\ pooled.kind = "raise"

\* C19: once a service is Ready no step of any request handler changes its
\* process-wide model, feature extractor or device, and Ready is not left.
C19_GlobalsFixedOnceReady ==
    [][/\ MlLifecycle = "Ready" =>
            /\ emotion_detector' = emotion_detector
            /\ whisper_model' = whisper_model
            /\ init_pc' = init_pc
       /\ ApiLifecycle = "Ready" =>
            /\ model' = model
            /\ feature_extractor' = feature_extractor
            /\ device' = device
            /\ load_pc' = load_pc]_vars

\* both services Ready and still so after answering a successful and a
\* failed request each, a health check and an /emojis call
C19_Witness ==
    /\ MlLifecycle = "Ready" /\ ApiLifecycle = "Ready"
    /\ emotion_detector = "loaded" /\ whisper_model = "loaded"
    /\ model = "trained" /\ feature_extractor = "loaded" /\ device = "cpu"
    /\ rpc[FirstThread] = "done" /\ rstatus[FirstThread] = 500
    /\ predict_resp.at = "Ready" /\ predict_resp.status = 200
    /\ api_health.asked /\ api_health.model_loaded
    /\ emojis_resp.status = 200

====
